---- MODULE Spec2Model ----
(***************************************************************************)
(* Model of util/key.rs: the PublicKey and PrivateKey codecs (SEC1 bytes,  *)
(* hex text, WIF text).  Byte strings are sequences over 0..255 and texts  *)
(* are the sequences of their characters' byte codes, with real lengths.   *)
(* The two collaborators of key.rs are modelled beside it: util::base58    *)
(* (real base-58 conversion, a small stand-in for the double hash) and the *)
(* secp256k1 backend (the curve y^2 = x^3 + 7 over a small prime field).   *)
(***************************************************************************)
EXTENDS Integers, Sequences, FiniteSets, TLC

(***************************************************************************)
(* Byte-string helpers                                                     *)
(***************************************************************************)
Zeros(n) == [i \in 1..n |-> 0]

Drop(s, n) == SubSeq(s, n + 1, Len(s))

Take(s, n) == SubSeq(s, 1, n)

\* number of leading elements of s equal to v
LeadingCount(s, v) ==
  IF \A i \in 1..Len(s) : s[i] = v
    THEN Len(s)
    ELSE (CHOOSE i \in 1..Len(s) : s[i] # v /\ \A j \in 1..(i - 1) : s[j] = v) - 1

\* TRUE once v has been computed: the folds below test it on each intermediate
\* value, so that the value is computed before the next step uses it
Done(v) == v = v

\* big-endian comparison of two byte strings of the same length
BytesLess(a, b) ==
  \E i \in 1..Len(a) : a[i] < b[i] /\ \A j \in 1..(i - 1) : a[j] = b[j]

(***************************************************************************)
(* util::base58 (Base58Check collaborator)                                 *)
(***************************************************************************)
\* the alphabet, as the byte codes of its characters ('1'..'9', 'A'..'Z' without
\* 'I' and 'O', 'a'..'z' without 'l')
BASE58_CHARS ==
  << 49, 50, 51, 52, 53, 54, 55, 56, 57,
     65, 66, 67, 68, 69, 70, 71, 72, 74, 75, 76, 77, 78, 80, 81, 82, 83, 84,
     85, 86, 87, 88, 89, 90,
     97, 98, 99, 100, 101, 102, 103, 104, 105, 106, 107, 109, 110, 111, 112,
     113, 114, 115, 116, 117, 118, 119, 120, 121, 122 >>

Base58Digit(ch) == (CHOOSE i \in 1..58 : BASE58_CHARS[i] = ch) - 1

IsBase58Char(ch) == \E i \in 1..58 : BASE58_CHARS[i] = ch

\* long division of the bytes n[lo..hi] by 58 with incoming remainder r; the
\* byte range is split in halves so that the evaluation stays shallow
RECURSIVE DivMod58(_, _, _, _)
DivMod58(n, lo, hi, r) ==
  IF lo > hi THEN [q |-> <<>>, r |-> r]
  ELSE IF lo = hi
    THEN [q |-> <<(r * 256 + n[lo]) \div 58>>, r |-> (r * 256 + n[lo]) % 58]
  ELSE LET mid == (lo + hi) \div 2
           left == DivMod58(n, lo, mid, r)
           right == DivMod58(n, mid + 1, hi, left.r)
       IN  IF Done(left) THEN [q |-> left.q \o right.q, r |-> right.r] ELSE left

\* one round of the conversion: st.n is what is left of the number (no leading
\* zeros), st.digits the base-58 digits found so far, least significant last
DigitStep(st) ==
  IF Len(st.n) = 0 THEN st
  ELSE LET dm == DivMod58(st.n, 1, Len(st.n), 0)
       IN  [n |-> Drop(dm.q, LeadingCount(dm.q, 0)), digits |-> <<dm.r>> \o st.digits]

RECURSIVE DigitSteps(_, _)
DigitSteps(st, k) ==
  IF k = 0 THEN st
  ELSE IF k = 1 THEN DigitStep(st)
  ELSE LET half == DigitSteps(st, k \div 2)
       IN  IF Len(half.n) = 0 THEN half ELSE DigitSteps(half, k - (k \div 2))

\* base-58 digits (most significant first) of a byte string without leading
\* zeros; Len(n) * 138 / 100 + 1 digits are enough
ToDigits(n) == DigitSteps([n |-> n, digits |-> <<>>], (Len(n) * 138) \div 100 + 1).digits

\* the bytes n[lo..hi] times 58 plus carry
RECURSIVE MulAdd58(_, _, _, _)
MulAdd58(n, lo, hi, carry) ==
  IF lo > hi THEN [bytes |-> <<>>, carry |-> carry]
  ELSE IF lo = hi
    THEN [bytes |-> <<(n[lo] * 58 + carry) % 256>>, carry |-> (n[lo] * 58 + carry) \div 256]
  ELSE LET mid == (lo + hi) \div 2
           right == MulAdd58(n, mid + 1, hi, carry)
           left == MulAdd58(n, lo, mid, right.carry)
       IN  IF Done(right)
             THEN [bytes |-> left.bytes \o right.bytes, carry |-> left.carry]
             ELSE right

\* the byte string n (no leading zeros) times 58 plus the digit d
PushDigit(n, d) ==
  LET m == MulAdd58(n, 1, Len(n), d)
  IN  IF m.carry = 0 THEN m.bytes ELSE <<m.carry>> \o m.bytes

\* acc extended by the base-58 digits text[lo..hi]
RECURSIVE FromDigits(_, _, _, _)
FromDigits(text, lo, hi, acc) ==
  IF lo > hi THEN acc
  ELSE IF lo = hi THEN PushDigit(acc, Base58Digit(text[lo]))
  ELSE LET left == FromDigits(text, lo, (lo + hi) \div 2, acc)
       IN  IF Done(left) THEN FromDigits(text, (lo + hi) \div 2 + 1, hi, left) ELSE left

\* stand-in for the first four bytes of the double hash of the payload: a
\* position-dependent fold over data[lo..hi]
RECURSIVE HashFold(_, _, _, _)
HashFold(data, lo, hi, h) ==
  IF lo > hi THEN h
  ELSE IF lo = hi THEN (h * 31 + data[lo] + lo) % 65521
  ELSE LET left == HashFold(data, lo, (lo + hi) \div 2, h)
       IN  IF Done(left) THEN HashFold(data, (lo + hi) \div 2 + 1, hi, left) ELSE left

Checksum(data) ==
  LET h == HashFold(data, 1, Len(data), 7)
  IN  << h % 256, h \div 256, (h * 7 + Len(data)) % 256, (h \div 3) % 256 >>

\* base58::encode_slice
encode_slice(data) ==
  LET z == LeadingCount(data, 0)
      digits == ToDigits(Drop(data, z))
  IN  [i \in 1..z |-> BASE58_CHARS[1]] \o [i \in 1..Len(digits) |-> BASE58_CHARS[digits[i] + 1]]

\* base58::check_encode_slice
check_encode_slice(data) == encode_slice(data \o Checksum(data))

\* base58::from
base58_from(text) ==
  IF \E i \in 1..Len(text) : ~IsBase58Char(text[i])
    THEN [ok |-> FALSE,
          err |-> [kind |-> "BadByte",
                   arg |-> <<text[CHOOSE i \in 1..Len(text) :
                                    /\ ~IsBase58Char(text[i])
                                    /\ \A j \in 1..(i - 1) : IsBase58Char(text[j])]>>]]
    ELSE LET z == LeadingCount(text, BASE58_CHARS[1])
         IN  [ok |-> TRUE, val |-> Zeros(z) \o FromDigits(text, z + 1, Len(text), <<>>)]

\* base58::from_check
from_check(text) ==
  LET r == base58_from(text)
  IN  IF ~r.ok THEN r
      ELSE IF Len(r.val) < 4
        THEN [ok |-> FALSE, err |-> [kind |-> "TooShort", arg |-> <<Len(r.val)>>]]
      ELSE LET body == Take(r.val, Len(r.val) - 4)
               actual == Drop(r.val, Len(r.val) - 4)
           IN  IF Checksum(body) # actual
                 THEN [ok |-> FALSE,
                       err |-> [kind |-> "BadChecksum", arg |-> Checksum(body) \o actual]]
                 ELSE [ok |-> TRUE, val |-> body]

(***************************************************************************)
(* Results and errors (encode::Error wraps base58::Error and               *)
(* secp256k1::Error)                                                       *)
(***************************************************************************)
Ok(v) == [ok |-> TRUE, val |-> v]

Err(e) == [ok |-> FALSE, err |-> e]

\* encode::Error::Base58(base58::Error::kind(arg))
Base58Error(kind, arg) == [wrap |-> "Base58", kind |-> kind, arg |-> arg]

\* encode::Error::Secp256k1(secp256k1::Error::kind)
Secp256k1Error(kind) == [wrap |-> "Secp256k1", kind |-> kind, arg |-> <<>>]

(***************************************************************************)
(* secp256k1 (cryptographic backend).  Secret keys are the real 32-byte    *)
(* scalars, checked against the real group order; points live on          *)
(* y^2 = x^3 + 7 over the field of FIELD_P elements, whose group has       *)
(* GROUP_N elements, and coordinates are written as 32-byte big-endian.    *)
(***************************************************************************)
CURVE_ORDER ==
  << 255, 255, 255, 255, 255, 255, 255, 255, 255, 255, 255, 255, 255, 255, 255, 254,
     186, 174, 220, 230, 175, 72, 160, 59, 191, 210, 94, 140, 208, 54, 65, 65 >>

FIELD_P == 43

GROUP_N == 31

GENERATOR == [x |-> 2, y |-> 12]

\* secp256k1::SecretKey::from_slice: 32 bytes, nonzero, below the group order
SecretKey_from_slice(data) ==
  IF Len(data) = 32 /\ data # Zeros(32) /\ BytesLess(data, CURVE_ORDER)
    THEN [ok |-> TRUE, val |-> data]
    ELSE [ok |-> FALSE, err |-> "InvalidSecretKey"]

FieldInv(a) == CHOOSE b \in 1..(FIELD_P - 1) : (a * b) % FIELD_P = 1

OnCurve(x, y) == (y * y) % FIELD_P = (x * x * x + 7) % FIELD_P

\* sum of two points, neither the point at infinity nor each other's inverse
PointAdd(p, q) ==
  LET lam == IF p = q
               THEN (3 * p.x * p.x * FieldInv((2 * p.y) % FIELD_P)) % FIELD_P
               ELSE ((q.y - p.y + FIELD_P) * FieldInv((q.x - p.x + FIELD_P) % FIELD_P)) % FIELD_P
      x3 == (lam * lam + 2 * FIELD_P - p.x - q.x) % FIELD_P
  IN  [x |-> x3, y |-> (lam * (p.x - x3 + FIELD_P) + FIELD_P - p.y) % FIELD_P]

\* k times the generator, 1 <= k < GROUP_N, by doubling and adding
RECURSIVE PointMul(_)
PointMul(k) ==
  IF k = 1 THEN GENERATOR
  ELSE LET half == PointMul(k \div 2)
           even == PointAdd(half, half)
       IN  IF k % 2 = 0 THEN even ELSE PointAdd(even, GENERATOR)

\* the scalar (big-endian bytes key[lo..hi] after the value acc) modulo GROUP_N - 1
RECURSIVE ScalarMod(_, _, _, _)
ScalarMod(key, lo, hi, acc) ==
  IF lo > hi THEN acc
  ELSE IF lo = hi THEN (acc * 256 + key[lo]) % (GROUP_N - 1)
  ELSE LET left == ScalarMod(key, lo, (lo + hi) \div 2, acc)
       IN  IF Done(left) THEN ScalarMod(key, (lo + hi) \div 2 + 1, hi, left) ELSE left

\* secp256k1::PublicKey::from_secret_key: the multiple of the generator the
\* scalar selects (never the point at infinity)
from_secret_key(key) == PointMul(ScalarMod(key, 1, 32, 0) + 1)

FieldBytes(v) == Zeros(31) \o <<v>>

\* the field element a 32-byte coordinate denotes, or FIELD_P if it is out of range
FieldValue(bytes) ==
  IF Take(bytes, 31) = Zeros(31) /\ bytes[32] < FIELD_P THEN bytes[32] ELSE FIELD_P

\* secp256k1::PublicKey::serialize (compressed form)
serialize(key) == <<2 + (key.y % 2)>> \o FieldBytes(key.x)

\* secp256k1::PublicKey::serialize_uncompressed
serialize_uncompressed(key) == <<4>> \o FieldBytes(key.x) \o FieldBytes(key.y)

\* secp256k1::PublicKey::from_slice: compressed (02/03), uncompressed (04) or
\* hybrid (06/07) encoding of a point on the curve
secp_from_slice(data) ==
  IF Len(data) = 33 /\ data[1] \in {2, 3}
    THEN LET x == FieldValue(SubSeq(data, 2, 33))
             ys == {y \in 0..(FIELD_P - 1) : x < FIELD_P /\ OnCurve(x, y) /\ y % 2 = data[1] - 2}
         IN  IF ys = {} THEN [ok |-> FALSE, err |-> "InvalidPublicKey"]
             ELSE [ok |-> TRUE, val |-> [x |-> x, y |-> CHOOSE y \in ys : TRUE]]
  ELSE IF Len(data) = 65 /\ data[1] \in {4, 6, 7}
    THEN LET x == FieldValue(SubSeq(data, 2, 33))
             y == FieldValue(SubSeq(data, 34, 65))
         IN  IF /\ x < FIELD_P /\ y < FIELD_P /\ OnCurve(x, y)
                /\ (data[1] = 4 \/ y % 2 = data[1] - 6)
               THEN [ok |-> TRUE, val |-> [x |-> x, y |-> y]]
               ELSE [ok |-> FALSE, err |-> "InvalidPublicKey"]
  ELSE [ok |-> FALSE, err |-> "InvalidPublicKey"]

\* the value of a hexadecimal digit ('0'..'9', 'a'..'f', 'A'..'F'), or 16
HexValue(c) ==
  IF c >= 48 /\ c <= 57 THEN c - 48
  ELSE IF c >= 97 /\ c <= 102 THEN c - 97 + 10
  ELSE IF c >= 65 /\ c <= 70 THEN c - 65 + 10
  ELSE 16

\* secp256k1's from_hex into a buffer of 'room' bytes
from_hex(hex, room) ==
  IF Len(hex) % 2 = 1 \/ Len(hex) > room * 2 THEN [ok |-> FALSE, err |-> "InvalidHex"]
  ELSE IF \E i \in 1..Len(hex) : HexValue(hex[i]) = 16 THEN [ok |-> FALSE, err |-> "InvalidHex"]
  ELSE [ok |-> TRUE,
        val |-> [i \in 1..(Len(hex) \div 2) |->
                   HexValue(hex[2 * i - 1]) * 16 + HexValue(hex[2 * i])]]

\* secp256k1::PublicKey::from_str
secp_from_str(s) ==
  LET res == from_hex(s, 65)
  IN  IF res.ok /\ Len(res.val) \in {33, 65}
        THEN secp_from_slice(res.val)
        ELSE [ok |-> FALSE, err |-> "InvalidPublicKey"]

(***************************************************************************)
(* util/key.rs: PublicKey                                                  *)
(***************************************************************************)
\* write_into with the two branches exchanged
write_into_swapped(self, buf) ==
  IF self.compressed
    THEN buf \o serialize_uncompressed(self.key)
    ELSE buf \o serialize(self.key)

\* PublicKey::write_into
write_into(self, buf) ==
  IF self.compressed
    THEN buf \o serialize(self.key)
    ELSE buf \o serialize_uncompressed(self.key)

\* PublicKey::to_bytes
to_bytes(self) == write_into(self, <<>>)

\* from_slice with the flag taken from the wrong length
from_slice_flipped(data) ==
  IF Len(data) \notin {33, 65}
    THEN Err(Base58Error("InvalidLength", <<Len(data)>>))
    ELSE LET key == secp_from_slice(data)
         IN  IF key.ok
               THEN Ok([compressed |-> (Len(data) = 65), key |-> key.val])
               ELSE Err(Secp256k1Error(key.err))

\* PublicKey::from_slice
from_slice(data) ==
  IF Len(data) \notin {33, 65}
    THEN Err(Base58Error("InvalidLength", <<Len(data)>>))
    ELSE LET key == secp_from_slice(data)
         IN  IF key.ok
               THEN Ok([compressed |-> (Len(data) = 33), key |-> key.val])
               ELSE Err(Secp256k1Error(key.err))

\* the two lowercase hexadecimal characters of the format "{:02x}"
LowerHex(b) ==
  LET digit(d) == IF d < 10 THEN 48 + d ELSE 97 + d - 10
  IN  <<digit(b \div 16), digit(b % 16)>>

\* the loop "for ch in bytes { write!(f, "{:02x}", ch) }"
write_hex(bytes) ==
  [i \in 1..(2 * Len(bytes)) |-> LowerHex(bytes[(i + 1) \div 2])[2 - (i % 2)]]

\* Display for PublicKey
public_to_string(self) ==
  IF self.compressed
    THEN write_hex(serialize(self.key))
    ELSE write_hex(serialize_uncompressed(self.key))

\* from_str with the flag taken from the byte length instead of the text length
public_from_str_bytes(s) ==
  LET key == secp_from_str(s)
  IN  IF key.ok
        THEN Ok([key |-> key.val, compressed |-> (Len(s) = 33)])
        ELSE Err(Secp256k1Error(key.err))

\* FromStr for PublicKey
public_from_str(s) ==
  LET key == secp_from_str(s)
  IN  IF key.ok
        THEN Ok([key |-> key.val, compressed |-> (Len(s) = 66)])
        ELSE Err(Secp256k1Error(key.err))

(***************************************************************************)
(* util/key.rs: PrivateKey                                                 *)
(***************************************************************************)
Network == {"Bitcoin", "Testnet", "Regtest"}

\* public_key that always asks for the compressed form
public_key_compressed(self) == [compressed |-> TRUE, key |-> from_secret_key(self.key)]

\* PrivateKey::public_key
public_key(self) == [compressed |-> self.compressed, key |-> from_secret_key(self.key)]

\* PublicKey::from_private_key
from_private_key(sk) == public_key(sk)

\* version bytes with the common reference value 128 for the main network
wif_version_reference(network) == IF network = "Bitcoin" THEN 128 ELSE 239

\* the version byte of fmt_wif
wif_version(network) == IF network = "Bitcoin" THEN 199 ELSE 239

\* fmt_wif's slice without the assignment ret[33] = 1
wif_payload_no_marker(self) ==
  LET ret0 == Zeros(34)
      ret1 == [ret0 EXCEPT ![1] = wif_version(self.network)]
      ret2 == [i \in 1..34 |-> IF i \in 2..33 THEN self.key[i - 1] ELSE ret1[i]]
  IN  IF self.compressed THEN ret2 ELSE SubSeq(ret2, 1, 33)

\* the slice of ret that fmt_wif hands to base58::check_encode_slice
wif_payload(self) ==
  LET ret0 == Zeros(34)
      ret1 == [ret0 EXCEPT ![1] = wif_version(self.network)]
      ret2 == [i \in 1..34 |-> IF i \in 2..33 THEN self.key[i - 1] ELSE ret1[i]]
  IN  IF self.compressed
        THEN [ret2 EXCEPT ![34] = 1]
        ELSE SubSeq(ret2, 1, 33)

\* PrivateKey::fmt_wif
fmt_wif(self) == check_encode_slice(wif_payload(self))

\* PrivateKey::to_wif (through Display, which is fmt_wif)
to_wif(self) == fmt_wif(self)

\* the tail of from_wif: network and key of a payload of accepted length
wif_fields(data, versions) ==
  IF data.val[1] \notin versions
    THEN Err(Base58Error("InvalidVersion", <<data.val[1]>>))
  ELSE LET key == SecretKey_from_slice(SubSeq(data.val, 2, 33))
       IN  IF key.ok
             THEN Ok([compressed |-> (Len(data.val) >= 34),
                      network |-> IF data.val[1] = 239 THEN "Testnet" ELSE "Bitcoin",
                      key |-> key.val])
             ELSE Err(Secp256k1Error(key.err))

\* from_wif that also takes the reference version 128 for the main network
from_wif_data_reference(data) ==
  IF ~data.ok THEN Err(Base58Error(data.err.kind, data.err.arg))
  ELSE IF Len(data.val) \notin {33, 34}
    THEN Err(Base58Error("InvalidLength", <<Len(data.val)>>))
  ELSE wif_fields(data, {199, 239, 128})

\* from_wif that takes every payload of 34 bytes or more as compressed
from_wif_data_no_limit(data) ==
  IF ~data.ok THEN Err(Base58Error(data.err.kind, data.err.arg))
  ELSE IF Len(data.val) < 33
    THEN Err(Base58Error("InvalidLength", <<Len(data.val)>>))
  ELSE wif_fields(data, {199, 239})

\* from_wif that looks at the version byte before the length
from_wif_data_version_first(data) ==
  IF ~data.ok THEN Err(Base58Error(data.err.kind, data.err.arg))
  ELSE IF Len(data.val) >= 1 /\ data.val[1] \notin {199, 239}
    THEN Err(Base58Error("InvalidVersion", <<data.val[1]>>))
  ELSE IF Len(data.val) \notin {33, 34}
    THEN Err(Base58Error("InvalidLength", <<Len(data.val)>>))
  ELSE wif_fields(data, {199, 239})

\* PrivateKey::from_wif, after base58::from_check has produced data
from_wif_data(data) ==
  IF ~data.ok THEN Err(Base58Error(data.err.kind, data.err.arg))
  ELSE IF Len(data.val) \notin {33, 34}
    THEN Err(Base58Error("InvalidLength", <<Len(data.val)>>))
  ELSE IF data.val[1] \notin {199, 239}
    THEN Err(Base58Error("InvalidVersion", <<data.val[1]>>))
  ELSE LET key == SecretKey_from_slice(SubSeq(data.val, 2, 33))
       IN  IF key.ok
             THEN Ok([compressed |-> (Len(data.val) = 34),
                      network |-> IF data.val[1] = 199 THEN "Bitcoin" ELSE "Testnet",
                      key |-> key.val])
             ELSE Err(Secp256k1Error(key.err))

\* PrivateKey::from_wif
from_wif(wif) == from_wif_data(from_check(wif))

(***************************************************************************)
(* Inputs                                                                  *)
(***************************************************************************)
\* number of sample scalars besides the smallest and the largest valid one
NumScalars == 1

\* how far the lengths of the raw inputs go beyond the accepted lengths
LenSlack == 1

\* number of calls in one run of the private-key codec
MaxWifCalls == 3

\* number of calls in one run of the public-key codec
MaxPubCalls == 4

Pattern(i) == [j \in 1..32 |-> (i * 37 + j * 11) % 256]

ValidScalars ==
  {s \in {Pattern(i) : i \in 1..NumScalars}
         \cup {Zeros(31) \o <<1>>, [CURVE_ORDER EXCEPT ![32] = 64]} :
     SecretKey_from_slice(s).ok}

InvalidScalars == {Zeros(32), CURVE_ORDER}

\* every PrivateKey over the sample scalars
PrivateKeys ==
  {[compressed |-> c, network |-> n, key |-> s] :
     c \in BOOLEAN, n \in Network, s \in ValidScalars}

\* every PublicKey over the sample scalars' points
PublicKeys ==
  {[compressed |-> c, key |-> from_secret_key(s)] : c \in BOOLEAN, s \in ValidScalars}

\* payloads of n bytes: a version byte, a scalar, a marker, then filler
RawPayload(v, s, m, n) ==
  [i \in 1..n |-> IF i = 1 THEN v ELSE IF i <= 33 THEN s[i - 1] ELSE IF i = 34 THEN m ELSE 7]

WifPayloads ==
  {RawPayload(v, s, m, n) :
     v \in {199, 239, 128, 0},
     s \in {Pattern(1)} \cup InvalidScalars,
     m \in {0, 1, 2},
     n \in {0, 1} \cup ((33 - LenSlack)..(34 + LenSlack))}

\* a text with its last character replaced by another one of the alphabet
BadSum(t) ==
  [t EXCEPT ![Len(t)] = IF t[Len(t)] = BASE58_CHARS[58] THEN BASE58_CHARS[1]
                                                       ELSE BASE58_CHARS[58]]

\* a text with its first character replaced by '0', which is not in the alphabet
BadChar(t) == [t EXCEPT ![1] = 48]

\* the WIF texts handed to from_wif: well-formed encodings of the payloads and
\* damaged ones, and two texts too short to hold a checksum
WifInputs ==
  UNION {{check_encode_slice(p), BadSum(check_encode_slice(p)),
          BadChar(check_encode_slice(p))} : p \in WifPayloads}
    \cup {<<>>, <<BASE58_CHARS[2]>>}

Resize(b, n) == [i \in 1..n |-> IF i <= Len(b) THEN b[i] ELSE 0]

\* the byte strings handed to PublicKey::from_slice: the encodings of the sample
\* points, resized ones, and ones with a changed prefix or coordinate
ByteInputs ==
  UNION {
    LET c == serialize(k)
        u == serialize_uncompressed(k)
    IN  {c, u,
         [u EXCEPT ![1] = 6 + (k.y % 2)], [u EXCEPT ![1] = 7 - (k.y % 2)],
         [c EXCEPT ![1] = 4], [c EXCEPT ![1] = 0], [u EXCEPT ![1] = 2],
         [c EXCEPT ![33] = 1], [c EXCEPT ![2] = 1],
         [u EXCEPT ![65] = (k.y + 1) % FIELD_P]}
        \cup {Resize(e, n) :
                e \in {c, u},
                n \in {0} \cup ((33 - LenSlack)..(33 + LenSlack))
                          \cup ((65 - LenSlack)..(65 + LenSlack))}
    : k \in {from_secret_key(s) : s \in ValidScalars}}

Upper(t) == [i \in 1..Len(t) |-> IF t[i] >= 97 THEN t[i] - 32 ELSE t[i]]

\* the texts handed to PublicKey::from_str: the hex of the byte inputs in both
\* cases, and damaged ones (odd length, a character that is no hex digit)
HexInputs ==
  UNION {{write_hex(b), Upper(write_hex(b)), Take(write_hex(b), 2 * Len(b) - 1),
          write_hex(b) \o <<103>>, <<103>> \o write_hex(b),
          [i \in 1..(2 * Len(b)) |-> IF i = 2 THEN 103 ELSE write_hex(b)[i]]}
         : b \in ByteInputs}

(***************************************************************************)
(* State: the values the caller holds (each empty or one value) and the    *)
(* calls made so far.                                                      *)
(***************************************************************************)
VARIABLES sk, pk, wif, buf, hex, hist

vars == <<sk, pk, wif, buf, hex, hist>>

\* a call: the operation, its argument, its result, and for fmt_wif and from_wif
\* the payload on the Base58Check side (aux)
Call(op, arg, aux, res) == [op |-> op, arg |-> arg, aux |-> aux, res |-> res]

(***************************************************************************)
(* The private-key codec                                                   *)
(***************************************************************************)
InitWif ==
  /\ \/ sk \in {<<p>> : p \in PrivateKeys} /\ wif = <<>>
     \/ wif \in {<<t>> : t \in WifInputs} /\ sk = <<>>
  /\ pk = <<>> /\ buf = <<>> /\ hex = <<>>
  /\ hist = <<>>

\* sk.to_wif() (also Display and to_string, which are fmt_wif)
ToWif ==
  /\ Len(sk) = 1 /\ Len(hist) < MaxWifCalls
  /\ wif' = <<to_wif(sk[1])>>
  /\ hist' = Append(hist, Call("to_wif", sk[1], wif_payload(sk[1]), to_wif(sk[1])))
  /\ UNCHANGED <<sk, pk, buf, hex>>

\* PrivateKey::from_wif(wif) (also FromStr, which is from_wif)
FromWif ==
  /\ Len(wif) = 1 /\ Len(hist) < MaxWifCalls
  /\ LET r == from_wif(wif[1])
     IN  /\ sk' = IF r.ok THEN <<r.val>> ELSE sk
         /\ hist' = Append(hist, Call("from_wif", wif[1], from_check(wif[1]), r))
  /\ UNCHANGED <<pk, wif, buf, hex>>

NextWif == ToWif \/ FromWif

SpecWif == InitWif /\ [][NextWif]_vars

(***************************************************************************)
(* The public-key codec and the derivation                                 *)
(***************************************************************************)
InitPub ==
  /\ \/ sk \in {<<p>> : p \in PrivateKeys} /\ pk = <<>> /\ buf = <<>> /\ hex = <<>>
     \/ pk \in {<<k>> : k \in PublicKeys} /\ sk = <<>> /\ buf = <<>> /\ hex = <<>>
     \/ buf \in {<<b>> : b \in ByteInputs} /\ sk = <<>> /\ pk = <<>> /\ hex = <<>>
     \/ hex \in {<<h>> : h \in HexInputs} /\ sk = <<>> /\ pk = <<>> /\ buf = <<>>
  /\ wif = <<>>
  /\ hist = <<>>

\* sk.public_key(&secp)
PublicKeyOf ==
  /\ Len(sk) = 1 /\ Len(hist) < MaxPubCalls
  /\ pk' = <<public_key(sk[1])>>
  /\ hist' = Append(hist, Call("public_key", sk[1], <<>>, public_key(sk[1])))
  /\ UNCHANGED <<sk, wif, buf, hex>>

\* PublicKey::from_private_key(&secp, &sk)
FromPrivateKey ==
  /\ Len(sk) = 1 /\ Len(hist) < MaxPubCalls
  /\ pk' = <<from_private_key(sk[1])>>
  /\ hist' = Append(hist, Call("from_private_key", sk[1], <<>>, from_private_key(sk[1])))
  /\ UNCHANGED <<sk, wif, buf, hex>>

\* pk.compressed = b
SetCompressed(b) ==
  /\ Len(pk) = 1 /\ Len(hist) < MaxPubCalls
  /\ pk' = <<[pk[1] EXCEPT !.compressed = b]>>
  /\ hist' = Append(hist, Call("set_compressed", pk[1], <<>>, [pk[1] EXCEPT !.compressed = b]))
  /\ UNCHANGED <<sk, wif, buf, hex>>

\* pk.to_bytes()
ToBytes ==
  /\ Len(pk) = 1 /\ Len(hist) < MaxPubCalls
  /\ buf' = <<to_bytes(pk[1])>>
  /\ hist' = Append(hist, Call("to_bytes", pk[1], <<>>, to_bytes(pk[1])))
  /\ UNCHANGED <<sk, pk, wif, hex>>

\* PublicKey::from_slice(&buf)
FromSlice ==
  /\ Len(buf) = 1 /\ Len(hist) < MaxPubCalls
  /\ LET r == from_slice(buf[1])
     IN  /\ pk' = IF r.ok THEN <<r.val>> ELSE pk
         /\ hist' = Append(hist, Call("from_slice", buf[1], <<>>, r))
  /\ UNCHANGED <<sk, wif, buf, hex>>

\* pk.to_string()
ToHexString ==
  /\ Len(pk) = 1 /\ Len(hist) < MaxPubCalls
  /\ hex' = <<public_to_string(pk[1])>>
  /\ hist' = Append(hist, Call("to_string", pk[1], <<>>, public_to_string(pk[1])))
  /\ UNCHANGED <<sk, pk, wif, buf>>

\* PublicKey::from_str(&hex)
FromStr ==
  /\ Len(hex) = 1 /\ Len(hist) < MaxPubCalls
  /\ LET r == public_from_str(hex[1])
     IN  /\ pk' = IF r.ok THEN <<r.val>> ELSE pk
         /\ hist' = Append(hist, Call("from_str", hex[1], <<>>, r))
  /\ UNCHANGED <<sk, wif, buf, hex>>

NextPub ==
  \/ PublicKeyOf
  \/ FromPrivateKey
  \/ \E b \in BOOLEAN : SetCompressed(b)
  \/ ToBytes
  \/ FromSlice
  \/ ToHexString
  \/ FromStr

SpecPub == InitPub /\ [][NextPub]_vars

(***************************************************************************)
(* Properties                                                              *)
(***************************************************************************)
\* call i+1 is op2 applied to the result of call i, which is op1
Chained(i, op1, op2) ==
  /\ i + 1 <= Len(hist)
  /\ hist[i].op = op1
  /\ hist[i + 1].op = op2
  /\ hist[i + 1].arg = hist[i].res

\* call i+1 is op2 applied to the value that call i, a decoding, returned
ChainedOk(i, op1, op2) ==
  /\ i + 1 <= Len(hist)
  /\ hist[i].op = op1
  /\ hist[i].res.ok
  /\ hist[i + 1].op = op2
  /\ hist[i + 1].arg = hist[i].res.val

C2_WifTextRoundTrip ==
  \A i \in 1..Len(hist) :
    ChainedOk(i, "from_wif", "to_wif") => hist[i + 1].res = hist[i].arg

\* C3: from_slice(k.to_bytes()) and from_str(k.to_string()) succeed and return a
\* key equal to k, for both values of the compressed flag.
C3_RoundTripPublic ==
  \A i \in 1..Len(hist) :
    /\ Chained(i, "to_bytes", "from_slice") =>
         hist[i + 1].res.ok /\ hist[i + 1].res.val = hist[i].arg
    /\ Chained(i, "to_string", "from_str") =>
         hist[i + 1].res.ok /\ hist[i + 1].res.val = hist[i].arg

C3_Witness ==
  \E i \in 1..Len(hist) :
    /\ Chained(i, "to_bytes", "from_slice")
    /\ ~hist[i].arg.compressed
    /\ hist[i + 1].res.ok

\* the payload of call i is checksum-valid and its first byte is no known version
UnknownVersion(i) ==
  /\ hist[i].op = "from_wif"
  /\ hist[i].aux.ok
  /\ Len(hist[i].aux.val) >= 1
  /\ hist[i].aux.val[1] \notin {199, 239}

\* C4 as stated: from_wif of every checksum-valid payload whose first byte is
\* neither 199 nor 239 returns the invalid-version error carrying that byte; first
\* byte 199 decodes to Bitcoin and 239 to Testnet.
C4_VersionGate ==
  \A i \in 1..Len(hist) :
    /\ UnknownVersion(i) =>
         /\ ~hist[i].res.ok
         /\ hist[i].res.err = Base58Error("InvalidVersion", <<hist[i].aux.val[1]>>)
    /\ (hist[i].op = "from_wif" /\ hist[i].res.ok) =>
         /\ hist[i].aux.val[1] = 199 => hist[i].res.val.network = "Bitcoin"
         /\ hist[i].aux.val[1] = 239 => hist[i].res.val.network = "Testnet"

\* C4 amended: from_wif of every checksum-valid payload of 33 or 34 bytes whose
\* first byte is neither 199 nor 239 returns the invalid-version error carrying
\* that byte; a decoded key has network Bitcoin exactly for first byte 199 and
\* Testnet exactly for 239.
C4_VersionGateAmended ==
  \A i \in 1..Len(hist) :
    /\ (UnknownVersion(i) /\ Len(hist[i].aux.val) \in {33, 34}) =>
         /\ ~hist[i].res.ok
         /\ hist[i].res.err = Base58Error("InvalidVersion", <<hist[i].aux.val[1]>>)
    /\ (hist[i].op = "from_wif" /\ hist[i].res.ok) =>
         /\ hist[i].aux.val[1] \in {199, 239}
         /\ hist[i].aux.val[1] = 199 <=> hist[i].res.val.network = "Bitcoin"
         /\ hist[i].aux.val[1] = 239 <=> hist[i].res.val.network = "Testnet"

C4_Witness ==
  \E i \in 1..Len(hist) :
    /\ UnknownVersion(i)
    /\ Len(hist[i].aux.val) = 34
    /\ hist[i].aux.val[1] = 128
    /\ hist[i].res = Err(Base58Error("InvalidVersion", <<128>>))

\* C5: from_wif of every checksum-valid payload whose length is not 33 or 34 (the
\* empty payload included) returns InvalidLength carrying that length.
C5_LengthGate ==
  \A i \in 1..Len(hist) :
    (/\ hist[i].op = "from_wif"
     /\ hist[i].aux.ok
     /\ Len(hist[i].aux.val) \notin {33, 34}) =>
      /\ ~hist[i].res.ok
      /\ hist[i].res.err = Base58Error("InvalidLength", <<Len(hist[i].aux.val)>>)

C5_Witness ==
  \E i \in 1..Len(hist) :
    /\ hist[i].op = "from_wif"
    /\ hist[i].aux = Ok(<<>>)
    /\ hist[i].res = Err(Base58Error("InvalidLength", <<0>>))

\* C6: the payload fmt_wif hands to Base58Check is the version byte (199 for
\* Bitcoin, 239 for Testnet and Regtest), then the 32 bytes of the scalar, then
\* the byte 1 exactly when the key is compressed: 33 or 34 bytes; and it is the
\* payload of the text that to_wif returns.
C6_PayloadLayout ==
  \A i \in 1..Len(hist) :
    hist[i].op = "to_wif" =>
      LET p == hist[i].arg
          payload == hist[i].aux
      IN  /\ Len(payload) = IF p.compressed THEN 34 ELSE 33
          /\ payload[1] = IF p.network = "Bitcoin" THEN 199 ELSE 239
          /\ SubSeq(payload, 2, 33) = p.key
          /\ p.compressed => payload[34] = 1
          /\ from_check(hist[i].res) = Ok(payload)

C6_Witness ==
  \E i \in 1..Len(hist) :
    /\ hist[i].op = "to_wif"
    /\ hist[i].arg.compressed
    /\ hist[i].arg.network = "Regtest"
    /\ Len(hist[i].aux) = 34

\* hexadecimal decoding of a text of any length
HexDecode(s) == from_hex(s, Len(s))

Derivations == {"public_key", "from_private_key"}

\* C8: the key that public_key and from_private_key return for p has p's
\* compressed flag; its point is the one derived from p's scalar under every
\* network and flag, and the same in every derivation from that scalar; p is
\* still the key the caller holds.
C8_DerivationConsistency ==
  \A i \in 1..Len(hist) :
    hist[i].op \in Derivations =>
      /\ hist[i].res.compressed = hist[i].arg.compressed
      /\ \A n \in Network, c \in BOOLEAN :
           public_key([compressed |-> c, network |-> n, key |-> hist[i].arg.key]).key
             = hist[i].res.key
      /\ \A j \in 1..Len(hist) :
           (hist[j].op \in Derivations /\ hist[j].arg.key = hist[i].arg.key) =>
             hist[j].res.key = hist[i].res.key
      /\ sk = <<hist[i].arg>>

C8_Witness ==
  \E i \in 1..Len(hist) :
    /\ hist[i].op = "public_key"
    /\ ~hist[i].arg.compressed
    /\ hist[i].arg.network = "Testnet"
    /\ ~hist[i].res.compressed
    /\ \E j \in (i + 1)..Len(hist) :
         hist[j].op = "from_private_key" /\ hist[j].res = hist[i].res

\* C9: to_bytes yields 33 bytes with prefix 2 or 3 when the flag of the key is
\* set and 65 bytes with prefix 4 when it is not, whatever assignments to the flag
\* came before; to_string yields the same bytes in hex; the X coordinate is the
\* same in both encodings of a point; decoding the output yields a key with the
\* flag the key had when it was encoded.
C9_FlagLength ==
  \A i \in 1..Len(hist) :
    /\ hist[i].op = "to_bytes" =>
         /\ hist[i].arg.compressed => Len(hist[i].res) = 33 /\ hist[i].res[1] \in {2, 3}
         /\ ~hist[i].arg.compressed => Len(hist[i].res) = 65 /\ hist[i].res[1] = 4
         /\ \A j \in 1..Len(hist) :
              (hist[j].op = "to_bytes" /\ hist[j].arg.key = hist[i].arg.key) =>
                SubSeq(hist[j].res, 2, 33) = SubSeq(hist[i].res, 2, 33)
    /\ hist[i].op = "to_string" =>
         /\ Len(hist[i].res) = IF hist[i].arg.compressed THEN 66 ELSE 130
         /\ HexDecode(hist[i].res) = Ok(to_bytes(hist[i].arg))
    /\ Chained(i, "to_bytes", "from_slice") =>
         hist[i + 1].res.ok /\ hist[i + 1].res.val.compressed = hist[i].arg.compressed
    /\ Chained(i, "to_string", "from_str") =>
         hist[i + 1].res.ok /\ hist[i + 1].res.val.compressed = hist[i].arg.compressed

C9_Witness ==
  \E i \in 1..Len(hist) :
    /\ Chained(i, "set_compressed", "to_bytes")
    /\ hist[i].arg.compressed # hist[i].res.compressed
    /\ hist[i].res.compressed
    /\ Chained(i + 1, "to_bytes", "from_slice")
    /\ hist[i + 2].res.ok
    /\ \E j \in 1..(i - 1) : hist[j].op = "to_bytes" /\ Len(hist[j].res) = 65

\* C10: from_wif returns the error of the first gate that fails, in the order
\* Base58Check, payload length, version byte, scalar; it succeeds when none fails.
C10_ErrorPrecedence ==
  \A i \in 1..Len(hist) :
    hist[i].op = "from_wif" =>
      LET data == hist[i].aux
          res == hist[i].res
          lenOk == Len(data.val) \in {33, 34}
          verOk == data.val[1] \in {199, 239}
          keyOk == SecretKey_from_slice(SubSeq(data.val, 2, 33)).ok
      IN  /\ ~data.ok => res = Err(Base58Error(data.err.kind, data.err.arg))
          /\ (data.ok /\ ~lenOk) =>
               res = Err(Base58Error("InvalidLength", <<Len(data.val)>>))
          /\ (data.ok /\ lenOk /\ ~verOk) =>
               res = Err(Base58Error("InvalidVersion", <<data.val[1]>>))
          /\ (data.ok /\ lenOk /\ verOk /\ ~keyOk) =>
               res = Err(Secp256k1Error("InvalidSecretKey"))
          /\ (data.ok /\ lenOk /\ verOk /\ keyOk) => res.ok
          /\ (~res.ok /\ res.err = Secp256k1Error("InvalidSecretKey")) =>
               data.ok /\ lenOk /\ verOk

C10_Witness ==
  \E i \in 1..Len(hist) :
    /\ hist[i].op = "from_wif"
    /\ hist[i].aux.ok
    /\ Len(hist[i].aux.val) = 35
    /\ hist[i].aux.val[1] = 128
    /\ SubSeq(hist[i].aux.val, 2, 33) = Zeros(32)
    /\ hist[i].res = Err(Base58Error("InvalidLength", <<35>>))

====
